---- MODULE Spec2Model ----
(***************************************************************************)
(* Model of the png-secret chunk codec: ChunkType (chunk_type.rs), Chunk   *)
(* (chunk.rs) and Png (png.rs).                                            *)
(*                                                                         *)
(* A byte is a number in 0..255 and a byte buffer is a sequence of bytes.  *)
(* A &str is the sequence of its UTF-8 bytes.  TLC's integers are 32-bit   *)
(* signed, so a u32 is held as its two 16-bit halves [hi, lo]; the usize   *)
(* values of the model (buffer lengths, offsets) are small naturals.       *)
(***************************************************************************)
EXTENDS Integers, Sequences, FiniteSets, TLC

VARIABLES pc, chunks, op, arg, ret, pre

vars == <<pc, chunks, op, arg, ret, pre>>

(***************************************************************************)
(* Bounds of the model.                                                    *)
(***************************************************************************)
\* longest &str handed to ChunkType::from_str
MaxStrLen == 5
\* longest payload handed to Chunk::new
MaxData == 2
\* most records in a buffer handed to Png::try_from or vector to from_chunks
MaxRecs == 2
\* most chunks a Png grows to by append_chunk
MaxChunks == 3

(***************************************************************************)
(* Results: Ok(v) and Err(msg).                                            *)
(***************************************************************************)
Ok(v) == [ok |-> TRUE, val |-> v]

Err(msg) == [ok |-> FALSE, err |-> msg]

NoVal == "-"

SeqsUpTo(S, n) == UNION {[1..k -> S] : k \in 0..n}

(***************************************************************************)
(* u32 arithmetic on halves.                                               *)
(***************************************************************************)
U32(h, l) == [hi |-> h, lo |-> l]

\* u32::try_from(n) for a usize n below 2^31 (every length of the model)
U32FromUsize(n) == U32(n \div 65536, n % 65536)

\* u32::to_be_bytes
to_be_bytes(x) == <<x.hi \div 256, x.hi % 256, x.lo \div 256, x.lo % 256>>

\* u32::from_be_bytes
from_be_bytes(b) == U32(b[1] * 256 + b[2], b[3] * 256 + b[4])

RECURSIVE XorBits(_, _, _)
XorBits(a, b, n) ==
    IF n = 0 THEN 0
    ELSE ((a + b) % 2) + 2 * XorBits(a \div 2, b \div 2, n - 1)

Xor32(x, y) == U32(XorBits(x.hi, y.hi, 16), XorBits(x.lo, y.lo, 16))

Shr32(x, k) ==
    LET p == 2 ^ k
    IN  U32(x.hi \div p, (x.lo \div p) + (x.hi % p) * (65536 \div p))

(***************************************************************************)
(* crc::Crc::<u32>::new(&crc::CRC_32_ISO_HDLC).checksum(bytes): reflected  *)
(* polynomial 0xEDB88320, initial value and final xor 0xFFFFFFFF.          *)
(***************************************************************************)
RECURSIVE CrcBits(_, _)
CrcBits(c, n) ==
    IF n = 0 THEN c
    ELSE CrcBits(IF c.lo % 2 = 1
                 THEN Xor32(U32(60856, 33568), Shr32(c, 1))
                 ELSE Shr32(c, 1), n - 1)

CrcTable == [i \in 0..255 |-> CrcBits(U32(0, i), 8)]

RECURSIVE CrcUpdate(_, _)
CrcUpdate(c, bytes) ==
    IF bytes = <<>> THEN c
    ELSE CrcUpdate(Xor32(CrcTable[XorBits(c.lo % 256, Head(bytes), 8)],
                         Shr32(c, 8)),
                   Tail(bytes))

checksum(bytes) == Xor32(CrcUpdate(U32(65535, 65535), bytes), U32(65535, 65535))

(***************************************************************************)
(* chunk_type.rs                                                           *)
(***************************************************************************)
is_letter(b) == (b > 65 /\ b < 90) \/ (b > 97 /\ b < 122)

\* is_critical reading the second byte instead of the first
is_critical_second_byte(t) == (t.bytes[2] \div 32) % 2 = 0

\* first >> 5 & 1 == 0
is_critical(t) == (t.bytes[1] \div 32) % 2 = 0

is_public(t) == (t.bytes[2] \div 32) % 2 = 0

is_reserved_bit_valid(t) == (t.bytes[3] \div 32) % 2 = 0

is_safe_to_copy(t) == (t.bytes[4] \div 32) % 2 = 1

is_valid(t) == is_reserved_bit_valid(t) /\ ~(is_critical(t) /\ is_safe_to_copy(t))

\* impl TryFrom<[u8; 4]> for ChunkType
ChunkType_try_from(bytes) ==
    IF \A i \in 1..4 : is_letter(bytes[i])
    THEN Ok([bytes |-> bytes])
    ELSE Err("should be all letters !!")

\* impl FromStr for ChunkType
ChunkType_from_str(s) ==
    IF Len(s) = 4 /\ \A i \in 1..Len(s) : is_letter(s[i])
    THEN Ok([bytes |-> s])
    ELSE Err("Should consist of 4 letters !!")

\* impl Display for ChunkType: the 4 bytes read as UTF-8 text
ChunkType_to_string(t) == t.bytes

\* ChunkType::bytes
bytes(t) == t.bytes

(***************************************************************************)
(* Calls on ChunkType.  The inputs are 4-byte arrays and strings over      *)
(* letters at and next to the ends of the ranges A-Z and a-z, letters      *)
(* inside them, and non-letters.  Each behaviour makes one constructor    *)
(* call and may then ask is_valid() of the value it got.                  *)
(***************************************************************************)
TypeByteInputs == {64, 65, 66, 89, 90, 91, 96, 97, 98, 121, 122, 123}

StrByteInputs == {48, 65, 66, 98, 122}

ArrayInputs == [1..4 -> TypeByteInputs]

StrInputs == SeqsUpTo(StrByteInputs, MaxStrLen)

TypeInit ==
    /\ pc = "type"
    /\ chunks = <<>>
    /\ op = "none"
    /\ arg = NoVal
    /\ ret = NoVal
    /\ pre = NoVal

TypeTryFrom ==
    /\ op = "none"
    /\ \E b \in ArrayInputs :
        /\ op' = "ChunkType::try_from"
        /\ arg' = b
        /\ ret' = ChunkType_try_from(b)
        /\ UNCHANGED <<pc, chunks, pre>>

TypeFromStr ==
    /\ op = "none"
    /\ \E s \in StrInputs :
        /\ op' = "ChunkType::from_str"
        /\ arg' = s
        /\ ret' = ChunkType_from_str(s)
        /\ UNCHANGED <<pc, chunks, pre>>

\* is_valid() on the ChunkType the last constructor returned
TypeIsValid ==
    /\ op \in {"ChunkType::try_from", "ChunkType::from_str"}
    /\ ret.ok
    /\ op' = "ChunkType::is_valid"
    /\ arg' = ret.val
    /\ ret' = is_valid(ret.val)
    /\ UNCHANGED <<pc, chunks, pre>>

TypeNext == TypeTryFrom \/ TypeFromStr \/ TypeIsValid

SpecType == TypeInit /\ [][TypeNext]_vars

(***************************************************************************)
(* chunk.rs                                                                *)
(***************************************************************************)
\* Chunk::new with the declared length fed to the checksum as well
Chunk_new_crc_over_length(chunk_type, data) ==
    [data_length |-> U32FromUsize(Len(data)),
     chunk_type  |-> chunk_type,
     data        |-> data,
     crc         |-> checksum(to_be_bytes(U32FromUsize(Len(data)))
                              \o bytes(chunk_type) \o data)]

Chunk_new(chunk_type, data) ==
    [data_length |-> U32FromUsize(Len(data)),
     chunk_type  |-> chunk_type,
     data        |-> data,
     crc         |-> checksum(bytes(chunk_type) \o data)]

\* Chunk::as_bytes writing the length with to_le_bytes
Chunk_as_bytes_le_length(c) ==
    <<c.data_length.lo % 256, c.data_length.lo \div 256,
      c.data_length.hi % 256, c.data_length.hi \div 256>>
    \o bytes(c.chunk_type) \o c.data \o to_be_bytes(c.crc)

Chunk_as_bytes(c) ==
    to_be_bytes(c.data_length) \o bytes(c.chunk_type) \o c.data \o to_be_bytes(c.crc)

\* usize::try_from(data_length).unwrap() != n, for a usize n of the model; the
\* conversion never fails where usize has 32 bits or more
UsizeDiffers(data_length, n) ==
    data_length.hi # n \div 65536 \/ data_length.lo # n % 65536

\* impl TryFrom<&[u8]> for Chunk
Chunk_try_from(b) ==
    LET length == Len(b) IN
    IF length < 12 THEN Err("cannot less than 12 bytes")
    ELSE
      LET data_length == from_be_bytes(SubSeq(b, 1, 4))
          chunk_type  == ChunkType_try_from(SubSeq(b, 5, 8))
      IN
      IF ~chunk_type.ok THEN Err(chunk_type.err)
      ELSE IF ~is_valid(chunk_type.val) THEN Err("invalid chunk type")
      ELSE
        LET data == SubSeq(b, 9, length - 4) IN
        IF UsizeDiffers(data_length, Len(data)) THEN Err("wrong data length")
        ELSE
          LET crc          == from_be_bytes(SubSeq(b, length - 3, length))
              computed_crc == checksum(SubSeq(b, 5, length - 4))
          IN
          IF crc # computed_crc THEN Err("crc is wrong")
          ELSE Ok([data_length |-> data_length,
                   chunk_type  |-> chunk_type.val,
                   data        |-> data,
                   crc         |-> crc])

(***************************************************************************)
(* Calls on Chunk.  Chunk::new gets a ChunkType that ChunkType::try_from   *)
(* returned and a payload; Chunk::try_from gets a buffer laid out as a     *)
(* record (length, type, payload, crc) with a right or wrong length and    *)
(* crc, or a buffer cut short.  A chunk in hand can be encoded with        *)
(* as_bytes, and the encoding decoded again with Chunk::try_from.          *)
(***************************************************************************)
\* "RuST", "ruSt", "RUSt", "rust", "IDAT", "R2ST"
RawTypeInputs ==
    {<<82, 117, 83, 84>>, <<114, 117, 83, 116>>, <<82, 85, 83, 116>>,
     <<114, 117, 115, 116>>, <<73, 68, 65, 84>>, <<82, 50, 83, 84>>}

DataByteInputs == {0, 116, 255}

DataInputs == SeqsUpTo(DataByteInputs, MaxData)

RawRecord(len, type, data, crc) ==
    to_be_bytes(len) \o type \o data \o to_be_bytes(crc)

LenInputs(d) ==
    {U32FromUsize(Len(d)), U32FromUsize(Len(d) + 1), U32(32768, Len(d))}

CrcInputs(len, t, d) ==
    {checksum(t \o d), checksum(to_be_bytes(len) \o t \o d), U32(0, 1)}

ChunkBufInputs ==
    UNION { UNION { { RawRecord(len, t, d, c) : c \in CrcInputs(len, t, d) }
                    : len \in LenInputs(d) }
            : <<t, d>> \in RawTypeInputs \X DataInputs }
    \cup { SubSeq(RawRecord(U32(0, 0), t, <<>>, checksum(t)), 1, n)
           : <<t, n>> \in RawTypeInputs \X {0, 11} }

ChunkInit ==
    /\ pc = "chunk"
    /\ chunks = <<>>
    /\ op = "none"
    /\ arg = NoVal
    /\ ret = NoVal
    /\ pre = NoVal

ChunkNew ==
    /\ op = "none"
    /\ \E t \in RawTypeInputs, d \in DataInputs :
        /\ ChunkType_try_from(t).ok
        /\ op' = "Chunk::new"
        /\ arg' = <<t, d>>
        /\ ret' = Chunk_new(ChunkType_try_from(t).val, d)
        /\ UNCHANGED <<pc, chunks, pre>>

ChunkTryFrom ==
    /\ op = "none"
    /\ \E b \in ChunkBufInputs :
        /\ op' = "Chunk::try_from"
        /\ arg' = b
        /\ ret' = Chunk_try_from(b)
        /\ pre' = NoVal
        /\ UNCHANGED <<pc, chunks>>

\* as_bytes() of the chunk the last call returned
ChunkAsBytes ==
    /\ \/ op = "Chunk::new"
       \/ op = "Chunk::try_from" /\ ret.ok
    /\ op' = "Chunk::as_bytes"
    /\ arg' = IF op = "Chunk::new" THEN ret ELSE ret.val
    /\ ret' = Chunk_as_bytes(arg')
    /\ pre' = op
    /\ pc' = "chunk"
    /\ UNCHANGED chunks

\* Chunk::try_from(chunk.as_bytes()); pre keeps the chunk that was encoded and
\* the call it came from
ChunkDecodeEncoded ==
    /\ op = "Chunk::as_bytes"
    /\ op' = "Chunk::try_from"
    /\ arg' = ret
    /\ ret' = Chunk_try_from(ret)
    /\ pre' = [chunk |-> arg, from |-> pre]
    /\ pc' = "roundtrip"
    /\ UNCHANGED chunks

ChunkNext == ChunkNew \/ ChunkTryFrom \/ ChunkAsBytes \/ ChunkDecodeEncoded

SpecChunk == ChunkInit /\ [][ChunkNext]_vars

(***************************************************************************)
(* png.rs                                                                  *)
(***************************************************************************)
STANDARD_HEADER == <<137, 80, 78, 71, 13, 10, 26, 10>>

Some(v) == [some |-> TRUE, val |-> v]

None == [some |-> FALSE]

Png_from_chunks(cs) == cs

\* chunks.iter().position(|chunk| chunk.chunk_type().to_string() == chunk_type),
\* scanning from index i (1-based here); 0 stands for None
RECURSIVE position(_, _, _)
position(cs, chunk_type, i) ==
    IF i > Len(cs) THEN 0
    ELSE IF ChunkType_to_string(cs[i].chunk_type) = chunk_type THEN i
    ELSE position(cs, chunk_type, i + 1)

\* chunk_by_type returning the last match (iter().rev().find(..))
chunk_by_type_last(cs, chunk_type) ==
    LET m == {i \in 1..Len(cs) : ChunkType_to_string(cs[i].chunk_type) = chunk_type}
    IN  IF m = {} THEN None
        ELSE Some(cs[CHOOSE i \in m : \A j \in m : j <= i])

\* Png::chunk_by_type: iter().find(..)
chunk_by_type(cs, chunk_type) ==
    LET i == position(cs, chunk_type, 1)
    IN  IF i = 0 THEN None ELSE Some(cs[i])

\* append_chunk putting the chunk first (insert(0, chunk))
append_chunk_front(cs, chunk) == <<chunk>> \o cs

\* append_chunk skipping a chunk whose type is already present
append_chunk_unique(cs, chunk) ==
    IF position(cs, ChunkType_to_string(chunk.chunk_type), 1) # 0
    THEN cs
    ELSE Append(cs, chunk)

\* Png::append_chunk: the chunks afterwards
append_chunk(cs, chunk) == Append(cs, chunk)

\* Vec::swap_remove(index): the last element takes the removed one's place
VecSwapRemove(cs, i) ==
    IF i = Len(cs) THEN SubSeq(cs, 1, Len(cs) - 1)
    ELSE SubSeq(cs, 1, i - 1) \o <<cs[Len(cs)]>> \o SubSeq(cs, i + 1, Len(cs) - 1)

\* Vec::remove(index)
VecRemove(cs, i) == SubSeq(cs, 1, i - 1) \o SubSeq(cs, i + 1, Len(cs))

\* remove_chunk dropping the last chunk when no chunk has the type
remove_chunk_pop_on_missing(cs, chunk_type) ==
    LET index == position(cs, chunk_type, 1)
    IN  IF index = 0
        THEN [ret |-> Err("no chunk with such type"),
              chunks |-> SubSeq(cs, 1, Len(cs) - 1)]
        ELSE [ret |-> Ok(cs[index]), chunks |-> VecRemove(cs, index)]

\* Png::remove_chunk: the result and the chunks afterwards
remove_chunk(cs, chunk_type) ==
    LET index == position(cs, chunk_type, 1)
    IN  IF index = 0
        THEN [ret |-> Err("no chunk with such type"), chunks |-> cs]
        ELSE [ret |-> Ok(cs[index]), chunks |-> VecRemove(cs, index)]

\* the chunks' bytes joined last chunk first
RECURSIVE FlatMapAsBytesReversed(_)
FlatMapAsBytesReversed(cs) ==
    IF cs = <<>> THEN <<>>
    ELSE FlatMapAsBytesReversed(Tail(cs)) \o Chunk_as_bytes(Head(cs))

RECURSIVE FlatMapAsBytes(_)
FlatMapAsBytes(cs) ==
    IF cs = <<>> THEN <<>>
    ELSE Chunk_as_bytes(Head(cs)) \o FlatMapAsBytes(Tail(cs))

Png_as_bytes(cs) == STANDARD_HEADER \o FlatMapAsBytes(cs)

\* next_index + 12 + data_length > length, data_length a u32 turned into a
\* usize of 64 bits: the sum does not wrap, and every length of the model is
\* below 65536
ExceedsLength(next_index, data_length, length) ==
    data_length.hi > 0 \/ next_index + 12 + data_length.lo > length

\* the while loop stopping at the first chunk that fails and returning the
\* chunks parsed so far
RECURSIVE ParseChunksLenient(_, _, _)
ParseChunksLenient(b, next_index, acc) ==
    LET length == Len(b) IN
    IF ~(next_index < length) THEN Ok(acc)
    ELSE IF next_index + 4 > length THEN Err("wrong length for png file")
    ELSE
      LET data_length == from_be_bytes(SubSeq(b, next_index + 1, next_index + 4)) IN
      IF ExceedsLength(next_index, data_length, length)
      THEN Err("wrong length for png file")
      ELSE
        LET chunk == Chunk_try_from(SubSeq(b, next_index + 1,
                                           next_index + 12 + data_length.lo))
        IN  IF ~chunk.ok THEN Ok(acc)
            ELSE ParseChunksLenient(b, next_index + 12 + data_length.lo,
                                    Append(acc, chunk.val))

\* the while loop of Png::try_from; next_index counts from 0 as in the code
RECURSIVE ParseChunks(_, _, _)
ParseChunks(b, next_index, acc) ==
    LET length == Len(b) IN
    IF ~(next_index < length) THEN Ok(acc)
    ELSE IF next_index + 4 > length THEN Err("wrong length for png file")
    ELSE
      LET data_length == from_be_bytes(SubSeq(b, next_index + 1, next_index + 4)) IN
      IF ExceedsLength(next_index, data_length, length)
      THEN Err("wrong length for png file")
      ELSE
        LET chunk == Chunk_try_from(SubSeq(b, next_index + 1,
                                           next_index + 12 + data_length.lo))
        IN  IF ~chunk.ok THEN chunk
            ELSE ParseChunks(b, next_index + 12 + data_length.lo,
                             Append(acc, chunk.val))

\* impl TryFrom<&[u8]> for Png
Png_try_from(b) ==
    IF Len(b) < 8 THEN Err("wrong length for png file")
    ELSE IF SubSeq(b, 1, 8) # STANDARD_HEADER THEN Err("wrong header")
    ELSE ParseChunks(b, 8, <<>>)

(***************************************************************************)
(* Calls on Png.  A behaviour builds one Png, with Png::from_chunks from   *)
(* chunks made by Chunk::new or with Png::try_from from a buffer, and then *)
(* calls chunk_by_type, append_chunk, remove_chunk and as_bytes on it; the *)
(* bytes as_bytes returned can be read back with Png::try_from, as the     *)
(* commands do through a file.  chunks is the Png's field, pre its value   *)
(* before the last call, and op, arg, ret the last call, its argument and  *)
(* what it returned.                                                       *)
(***************************************************************************)
\* "RuST", "ruSt", "RUSt"
PngTypeInputs == {<<82, 117, 83, 84>>, <<114, 117, 83, 116>>, <<82, 85, 83, 116>>}

PngDataInputs == {<<>>, <<116>>}

\* type texts asked for: the above, "rust", "RuS", "IDAT"
TextInputs ==
    PngTypeInputs \cup {<<114, 117, 115, 116>>, <<82, 117, 83>>, <<73, 68, 65, 84>>}

NewChunkInputs ==
    { Chunk_new(ChunkType_try_from(t).val, d)
      : <<t, d>> \in PngTypeInputs \X PngDataInputs }

\* records with a right length and crc, typed "RuST", "ruSt" or "IDAT"
GoodRecordInputs ==
    { RawRecord(U32FromUsize(Len(d)), t, d, checksum(t \o d))
      : <<t, d>> \in {<<82, 117, 83, 84>>, <<114, 117, 83, 116>>,
                      <<73, 68, 65, 84>>} \X PngDataInputs }

\* "RUSt" with a right crc; "RuST" with a wrong crc; "RuST" declaring one
\* byte more than it holds; "RuST" declaring 0xFFFFFFFF bytes
BadRecordInputs ==
    { RawRecord(U32(0, 0), <<82, 85, 83, 116>>, <<>>, checksum(<<82, 85, 83, 116>>)),
      RawRecord(U32(0, 0), <<82, 117, 83, 84>>, <<>>, U32(0, 1)),
      RawRecord(U32(0, 1), <<82, 117, 83, 84>>, <<>>, checksum(<<82, 117, 83, 84>>)),
      RawRecord(U32(65535, 65535), <<82, 117, 83, 84>>, <<>>,
                checksum(<<82, 117, 83, 84>>)) }

PngRecordInputs == GoodRecordInputs \cup BadRecordInputs

DecodedChunkInputs ==
    { Chunk_try_from(b).val : b \in {r \in PngRecordInputs : Chunk_try_from(r).ok} }

AppendInputs == NewChunkInputs \cup DecodedChunkInputs

RECURSIVE Flatten(_)
Flatten(ss) == IF ss = <<>> THEN <<>> ELSE Head(ss) \o Flatten(Tail(ss))

HeaderInputs == {STANDARD_HEADER, <<13, 80, 78, 71, 13, 10, 26, 10>>}

TailInputs == {<<>>, <<0>>, <<0, 0, 0, 0, 0, 0, 0, 0, 0, 0, 0>>}

PngBufInputs ==
    { h \o Flatten(rs) \o t
      : <<h, rs, t>> \in HeaderInputs \X SeqsUpTo(PngRecordInputs, MaxRecs) \X TailInputs }
    \cup {<<>>, SubSeq(STANDARD_HEADER, 1, 7)}

Init ==
    /\ pc = "start"
    /\ chunks = <<>>
    /\ op = "none"
    /\ arg = NoVal
    /\ ret = NoVal
    /\ pre = <<>>

FromChunks ==
    /\ pc = "start"
    /\ \E cs \in SeqsUpTo(NewChunkInputs, MaxRecs) :
        /\ pc' = "live"
        /\ chunks' = Png_from_chunks(cs)
        /\ op' = "Png::from_chunks"
        /\ arg' = cs
        /\ ret' = NoVal
        /\ pre' = <<>>

TryFrom ==
    /\ pc = "start"
    /\ \E b \in PngBufInputs :
        /\ op' = "Png::try_from"
        /\ arg' = b
        /\ ret' = Png_try_from(b)
        /\ pc' = IF ret'.ok THEN "live" ELSE "none"
        /\ chunks' = IF ret'.ok THEN ret'.val ELSE <<>>
        /\ pre' = <<>>

ChunkByType ==
    /\ pc = "live"
    /\ \E t \in TextInputs :
        /\ op' = "Png::chunk_by_type"
        /\ arg' = t
        /\ ret' = chunk_by_type(chunks, t)
        /\ pre' = chunks
        /\ UNCHANGED <<pc, chunks>>

AppendChunk ==
    /\ pc = "live"
    /\ Len(chunks) < MaxChunks
    /\ \E c \in AppendInputs :
        /\ op' = "Png::append_chunk"
        /\ arg' = c
        /\ ret' = NoVal
        /\ pre' = chunks
        /\ chunks' = append_chunk(chunks, c)
        /\ UNCHANGED pc

RemoveChunk ==
    /\ pc = "live"
    /\ \E t \in TextInputs :
        /\ op' = "Png::remove_chunk"
        /\ arg' = t
        /\ ret' = remove_chunk(chunks, t).ret
        /\ pre' = chunks
        /\ chunks' = remove_chunk(chunks, t).chunks
        /\ UNCHANGED pc

AsBytes ==
    /\ pc = "live"
    /\ op' = "Png::as_bytes"
    /\ arg' = NoVal
    /\ ret' = Png_as_bytes(chunks)
    /\ pre' = chunks
    /\ UNCHANGED <<pc, chunks>>

\* Png::try_from(png.as_bytes()): pre keeps the chunks that were encoded
ReadBack ==
    /\ pc = "live"
    /\ op = "Png::as_bytes"
    /\ op' = "Png::try_from(as_bytes)"
    /\ arg' = ret
    /\ ret' = Png_try_from(ret)
    /\ pc' = IF ret'.ok THEN "live" ELSE "none"
    /\ chunks' = IF ret'.ok THEN ret'.val ELSE <<>>
    /\ pre' = chunks

\* append_chunk with the chunk the remove_chunk just before returned; pre
\* stays the chunks before the two calls
AppendRemoved ==
    /\ pc = "live"
    /\ op = "Png::remove_chunk"
    /\ ret.ok
    /\ op' = "Png::append_chunk(removed)"
    /\ arg' = ret.val
    /\ ret' = NoVal
    /\ chunks' = append_chunk(chunks, ret.val)
    /\ UNCHANGED <<pc, pre>>

Next ==
    \/ FromChunks
    \/ TryFrom
    \/ ChunkByType
    \/ AppendChunk
    \/ RemoveChunk
    \/ AppendRemoved
    \/ AsBytes
    \/ ReadBack

Spec == Init /\ [][Next]_vars

(***************************************************************************)
(* Properties.                                                             *)
(***************************************************************************)
\* an ASCII letter by the inclusive ranges [0x41,0x5A] and [0x61,0x7A]
InclusiveLetter(b) == (b >= 65 /\ b <= 90) \/ (b >= 97 /\ b <= 122)

\* bit 0x20 of a byte
Bit5(b) == (b \div 32) % 2

\* reserved bit 0 and not both critical and safe-to-copy, on the 4 type bytes
TypeBitsValid(t) == Bit5(t[3]) = 0 /\ ~(Bit5(t[1]) = 0 /\ Bit5(t[4]) = 1)

\* b is a concatenation of records: big-endian length equal to the payload
\* size, 4 letters of A-Z / a-z whose bits are valid, crc of type and payload
RECURSIVE WellFormedRecords(_)
WellFormedRecords(b) ==
    \/ b = <<>>
    \/ /\ Len(b) >= 12
       /\ LET len == from_be_bytes(SubSeq(b, 1, 4)) IN
          /\ len.hi = 0
          /\ Len(b) >= 12 + len.lo
          /\ \A i \in 5..8 : InclusiveLetter(b[i])
          /\ TypeBitsValid(SubSeq(b, 5, 8))
          /\ from_be_bytes(SubSeq(b, 9 + len.lo, 12 + len.lo))
               = checksum(SubSeq(b, 5, 8 + len.lo))
          /\ WellFormedRecords(SubSeq(b, 13 + len.lo, Len(b)))

WellFormedBuffer(b) ==
    /\ Len(b) >= 8
    /\ SubSeq(b, 1, 8) = STANDARD_HEADER
    /\ WellFormedRecords(SubSeq(b, 9, Len(b)))

\* no chunk of cs has the type text t
NoMatch(cs, t) == \A i \in 1..Len(cs) : bytes(cs[i].chunk_type) # t

\* the lowest index of cs whose chunk has the type text t
FirstMatch(cs, t) ==
    CHOOSE i \in 1..Len(cs) :
        /\ bytes(cs[i].chunk_type) = t
        /\ \A j \in 1..(i - 1) : bytes(cs[j].chunk_type) # t

\* C1: Png::try_from succeeds on every buffer made of STANDARD_HEADER and
\* well-formed records (types of letters from the full ranges A-Z / a-z), and
\* as_bytes of the result is the buffer.
C1_WellFormedBufferRoundTrips ==
    (op = "Png::try_from" /\ WellFormedBuffer(arg))
        => (ret.ok /\ Png_as_bytes(ret.val) = arg)

\* C2: ChunkType::try_from succeeds iff all 4 bytes are in [0x41,0x5A] or
\* [0x61,0x7A]; from_str succeeds iff the string has 4 bytes, all in those
\* ranges; on success bytes() is the input.
C2_ConstructIffInclusiveLetters ==
    /\ op = "ChunkType::try_from"
         => /\ ret.ok <=> \A i \in 1..4 : InclusiveLetter(arg[i])
            /\ ret.ok => bytes(ret.val) = arg
    /\ op = "ChunkType::from_str"
         => /\ ret.ok <=> (Len(arg) = 4 /\ \A i \in 1..Len(arg) : InclusiveLetter(arg[i]))
            /\ ret.ok => bytes(ret.val) = arg

\* C3: for every constructible ChunkType, is_valid() is true iff bit 0x20 of
\* byte 2 is 0 and not both bit 0x20 of byte 0 is 0 and bit 0x20 of byte 3 is
\* 1; nothing else of the type decides it.
C3_IsValidBits ==
    op = "ChunkType::is_valid" => (ret <=> TypeBitsValid(bytes(arg)))

C3_Witness ==
    /\ op = "ChunkType::is_valid"
    /\ bytes(arg) = <<66, 121, 89, 98>>
    /\ ret = FALSE

\* C4 as stated: Chunk::try_from(record.as_bytes()) succeeds and gives the
\* record back, for a record from Chunk::new with any constructible type or
\* from a successful Chunk::try_from.
C4_RoundTripAnyType ==
    pc = "roundtrip" => ret = Ok(pre.chunk)

\* C4 amended: Chunk::try_from(record.as_bytes()) succeeds and gives the same
\* data_length, chunk_type, data and crc for a record from a successful
\* Chunk::try_from or from Chunk::new with a type that passes is_valid().
C4_RoundTripValidType ==
    (pc = "roundtrip" /\ is_valid(pre.chunk.chunk_type)) => ret = Ok(pre.chunk)

C4_Witness ==
    /\ pc = "roundtrip"
    /\ pre.from = "Chunk::new"
    /\ Len(pre.chunk.data) >= 1
    /\ ret.ok

\* C5: for a Png of records whose types pass is_valid(), Png::try_from of its
\* as_bytes() succeeds with the same records in the same order, the empty
\* sequence included.
C5_PngRoundTrip ==
    (op = "Png::try_from(as_bytes)" /\ \A i \in 1..Len(pre) : is_valid(pre[i].chunk_type))
        => ret = Ok(pre)

C5_Witness ==
    /\ op = "Png::try_from(as_bytes)"
    /\ Len(pre) >= 2
    /\ pre[1] # pre[2]
    /\ ret.ok

\* C6: every record of a Png has data_length equal to the number of payload
\* bytes and crc equal to the CRC-32 of type bytes and payload, without the
\* declared length.
C6_RecordInvariant ==
    pc = "live" =>
        \A i \in 1..Len(chunks) :
        /\ chunks[i].data_length = U32FromUsize(Len(chunks[i].data))
        /\ chunks[i].crc = checksum(bytes(chunks[i].chunk_type) \o chunks[i].data)

C6_Witness ==
    /\ pc = "live"
    /\ op = "Png::remove_chunk"
    /\ ret.ok
    /\ Len(chunks) >= 2
    /\ \E i \in 1..Len(chunks) : Len(chunks[i].data) >= 1

\* C7: remove_chunk(t) with no record of type t returns an error and leaves
\* chunks() as it was, so the same call made again fails the same way.
C7_RemoveMissingFails ==
    (op = "Png::remove_chunk" /\ NoMatch(pre, arg)) => (~ret.ok /\ chunks = pre)

C7_Witness ==
    /\ op = "Png::remove_chunk"
    /\ arg = <<114, 117, 115, 116>>
    /\ Len(pre) >= 2
    /\ \E i \in 1..Len(pre) : bytes(pre[i].chunk_type) = <<114, 117, 83, 116>>
    /\ ~ret.ok

\* C8: remove_chunk(t) with a record of type t returns the record at the
\* lowest matching index and leaves the other records, later ones of the same
\* type included, in their order; the length drops by 1.
C8_RemoveFirstMatch ==
    (op = "Png::remove_chunk" /\ ~NoMatch(pre, arg)) =>
        LET k == FirstMatch(pre, arg) IN
        /\ ret = Ok(pre[k])
        /\ Len(chunks) = Len(pre) - 1
        /\ \A i \in 1..Len(chunks) : chunks[i] = IF i < k THEN pre[i] ELSE pre[i + 1]

C8_Witness ==
    /\ op = "Png::remove_chunk"
    /\ ret.ok
    /\ Len(pre) = 3
    /\ bytes(pre[1].chunk_type) = arg
    /\ bytes(pre[2].chunk_type) # arg
    /\ bytes(pre[3].chunk_type) = arg
    /\ pre[3] # pre[1]

\* C9: append_chunk(r) succeeds whether or not a record of r's type is
\* present, and chunks() is then the previous sequence followed by r.
C9_AppendAtEnd ==
    op = "Png::append_chunk" =>
        /\ Len(chunks) = Len(pre) + 1
        /\ SubSeq(chunks, 1, Len(pre)) = pre
        /\ chunks[Len(chunks)] = arg

C9_Witness ==
    /\ op = "Png::append_chunk"
    /\ ~NoMatch(pre, bytes(arg.chunk_type))
    /\ Len(chunks) = Len(pre) + 1

\* C10: chunk_by_type(t) returns the record at the lowest index whose type
\* text is exactly t, None iff there is none, and leaves the container alone.
C10_FindFirstMatch ==
    op = "Png::chunk_by_type" =>
        /\ chunks = pre
        /\ ~ret.some <=> NoMatch(chunks, arg)
        /\ ~NoMatch(chunks, arg) => ret = Some(chunks[FirstMatch(chunks, arg)])

C10_Witness ==
    /\ op = "Png::chunk_by_type"
    /\ ret.some
    /\ Len(chunks) = 3
    /\ bytes(chunks[1].chunk_type) # arg
    /\ bytes(chunks[2].chunk_type) = arg
    /\ bytes(chunks[3].chunk_type) = arg
    /\ chunks[3] # chunks[2]

\* C11 as stated: remove_chunk(t) and then append_chunk of the removed record
\* give chunks() and as_bytes() that differ from those before the two calls.
C11_ReappendDiffers ==
    op = "Png::append_chunk(removed)" =>
        (chunks # pre /\ Png_as_bytes(chunks) # Png_as_bytes(pre))

\* C11 amended: remove_chunk(t) and then append_chunk of the removed record
\* give the previous sequence with its first record of type t moved to the
\* end; chunks() and as_bytes() differ from those before the two calls iff
\* some record after that first match differs from it.
C11_ReappendMovesToEnd ==
    op = "Png::append_chunk(removed)" =>
        LET t == bytes(arg.chunk_type)
            k == FirstMatch(pre, t)
            differs == \E j \in (k + 1)..Len(pre) : pre[j] # pre[k]
        IN  /\ arg = pre[k]
            /\ Len(chunks) = Len(pre)
            /\ \A i \in 1..Len(pre) :
                 chunks[i] = IF i < k THEN pre[i]
                             ELSE IF i < Len(pre) THEN pre[i + 1]
                             ELSE pre[k]
            /\ (chunks # pre) <=> differs
            /\ (Png_as_bytes(chunks) # Png_as_bytes(pre)) <=> differs

C11_Witness ==
    /\ op = "Png::append_chunk(removed)"
    /\ Len(pre) = 3
    /\ arg = pre[1]
    /\ pre[2] # pre[1]
    /\ chunks # pre
    /\ chunks[3] = pre[1]

\* how the bytes of b from offset off on (counted from 0) split into records
\* by their declared lengths: "exact" when records that each pass
\* Chunk::try_from tile them, "leftover" when 1 to 11 bytes remain after the
\* last complete record, "exceeds" when a declared length runs past the end
\* of b, "bad record" when a record fails Chunk::try_from
RECURSIVE Framing(_, _)
Framing(b, off) ==
    IF Len(b) - off = 0 THEN "exact"
    ELSE IF Len(b) - off < 12 THEN "leftover"
    ELSE
      LET len == from_be_bytes(SubSeq(b, off + 1, off + 4)) IN
      IF len.hi > 0 \/ off + 12 + len.lo > Len(b) THEN "exceeds"
      ELSE IF ~Chunk_try_from(SubSeq(b, off + 1, off + 12 + len.lo)).ok
      THEN "bad record"
      ELSE Framing(b, off + 12 + len.lo)

\* Png::try_from must fail on b
MustFail(b) ==
    \/ Len(b) < 8
    \/ SubSeq(b, 1, 8) # STANDARD_HEADER
    \/ Framing(b, 8) # "exact"

\* C12: Png::try_from fails on a buffer shorter than 8 bytes, on a wrong
\* header, when 1 to 11 bytes remain after the last complete record, when a
\* declared length runs past the buffer and when a record fails
\* Chunk::try_from; a failure returns no container at all, and a success
\* returns the records that tile the bytes after the header exactly.
C12_AllOrNothing ==
    op \in {"Png::try_from", "Png::try_from(as_bytes)"} =>
        /\ MustFail(arg) => (~ret.ok /\ pc = "none" /\ chunks = <<>>)
        /\ ret.ok =>
             /\ ~MustFail(arg)
             /\ chunks = ret.val
             /\ arg = STANDARD_HEADER
                        \o Flatten([i \in 1..Len(ret.val) |-> Chunk_as_bytes(ret.val[i])])
             /\ \A i \in 1..Len(ret.val) :
                  Chunk_try_from(Chunk_as_bytes(ret.val[i])) = Ok(ret.val[i])

\* a good first record, then a failure: nothing is returned
C12_Witness ==
    /\ op = "Png::try_from"
    /\ Len(arg) > 20
    /\ SubSeq(arg, 1, 8) = STANDARD_HEADER
    /\ Chunk_try_from(SubSeq(arg, 9, 20)).ok
    /\ ~ret.ok
    /\ pc = "none"
    /\ chunks = <<>>

\* the first of the four checks that the buffer b fails, "none" when it
\* passes them all: fewer than 12 bytes; type not 4 letters of A-Z / a-z or
\* not valid by its bits; declared length other than Len(b) - 12; stored crc
\* other than the crc of bytes 4..len-4
FirstFailedCheck(b) ==
    IF Len(b) < 12 THEN "short"
    ELSE IF ~(\A i \in 5..8 : InclusiveLetter(b[i])) \/ ~TypeBitsValid(SubSeq(b, 5, 8))
    THEN "type"
    ELSE IF from_be_bytes(SubSeq(b, 1, 4)) # U32FromUsize(Len(b) - 12) THEN "length"
    ELSE IF from_be_bytes(SubSeq(b, Len(b) - 3, Len(b))) # checksum(SubSeq(b, 5, Len(b) - 4))
    THEN "crc"
    ELSE "none"

\* the check an error of Chunk::try_from reports
ReportedCheck(e) ==
    CASE e = "cannot less than 12 bytes" -> "short"
      [] e \in {"should be all letters !!", "invalid chunk type"} -> "type"
      [] e = "wrong data length" -> "length"
      [] e = "crc is wrong" -> "crc"
      [] OTHER -> "other"

\* C13: Chunk::try_from reports the first check that fails, in the order
\* length below 12, type, declared length, crc, and returns a record only
\* when all four pass.
C13_FirstFailedCheckReported ==
    op = "Chunk::try_from" =>
        /\ ret.ok => FirstFailedCheck(arg) = "none"
        /\ FirstFailedCheck(arg) # "none"
             => (~ret.ok /\ ReportedCheck(ret.err) = FirstFailedCheck(arg))

====
